---- MODULE Spec2Model ----
(***************************************************************************)
(* HMAC key rotation (app.py and app-dev.py): HMACKeyRotator and main().   *)
(*                                                                         *)
(* The two scripts hold the same class; `variant` says which one runs.     *)
(* The external services (Secret Manager, the storage HMAC-key API) are    *)
(* the shared state; every request is one step whose outcome (success or   *)
(* an exception) is chosen nondeterministically.  Exceptions are followed  *)
(* through the try/except blocks of the code up to main()'s sys.exit.      *)
(*                                                                         *)
(* Timestamps are integers.  The HMAC API returns timeCreated as RFC 3339  *)
(* strings of fixed width, whose string order is the order of the instants *)
(* they denote, so sorting the strings sorts the integers.                 *)
(***************************************************************************)
EXTENDS Integers, Sequences, FiniteSets, TLC

VARIABLES
    \* ---- external services
    secretExists,        \* Secret Manager: the secret container exists
    versions,            \* Secret Manager: version number -> version
    keys,                \* HMAC API: access id -> key metadata (+ secret)
    clock,               \* the services' clock (creation timestamps)
    \* ---- process environment
    variant,             \* "app" (app.py) or "app-dev" (app-dev.py)
    SERVICE_ACCOUNT_EMAIL,   \* "set" or "unset"
    MAX_VERSIONS_TO_KEEP,    \* unset, not a number, or the text of an integer
    \* ---- one HMACKeyRotator per process
    pc,                  \* where the process is
    caller,              \* "main" (the script) or "direct" (a method call)
    max_versions_to_keep,    \* self.max_versions_to_keep
    hmac_key_data,       \* rotate_hmac_key's local
    enabled_versions,    \* disable_old_secret_versions' local (sorted)
    versions_to_disable, \* the part of the selection not yet requested
    keys_to_inactivate,  \* the part of hmac_keys[:-1] not yet visited
    exitCode,            \* sys.exit's argument, Running before the exit
    \* ---- observation (history) only
    steps,               \* the methods rotate_hmac_key has started, in order
    failed,              \* the step whose exception ended the run / call
    reqs,                \* the mutating requests issued in this run / call
    probe,               \* what verify_bucket_access returned
    log,                 \* the log lines of the run that name a key or an error
    prev,                \* how the previous direct call of each method ended
    calls                \* direct calls / further invocations made so far

vars == << secretExists, versions, keys, clock, variant, SERVICE_ACCOUNT_EMAIL,
           MAX_VERSIONS_TO_KEEP, pc, caller, max_versions_to_keep,
           hmac_key_data, enabled_versions, versions_to_disable,
           keys_to_inactivate, exitCode, steps, failed, reqs, probe, log,
           prev, calls >>

external == << secretExists, versions, keys, clock >>
environ  == << variant, SERVICE_ACCOUNT_EMAIL, MAX_VERSIONS_TO_KEEP >>

\* ------------------------------------------------------------------ bounds
\* items (versions + keys) that exist before a run of main()
MaxPrior == 2
\* items of the listing a cleanup method is called on directly
MaxListed == 3
\* direct calls of a cleanup method in one behaviour
MaxCalls == 2
\* largest retention value of the environment
MaxRetention == 2
\* invocations of the script, one after the other, in one behaviour
MaxRuns == 2

\* --------------------------------------------------------------- constants
\* os.getenv('MAX_VERSIONS_TO_KEEP', '2')
DefaultMaxVersions == 2

Procs == {"p1", "p2"}
Variants == {"app", "app-dev"}
VersionStates == {"ENABLED", "DISABLED", "DESTROYED"}
KeyStates == {"ACTIVE", "INACTIVE"}
\* the retention values of the environment: int() accepts negatives and zero
RetentionValues == (0 - 1) .. MaxRetention
None == [none |-> TRUE]
\* the process has not exited
Running == 0 - 1
\* the values of the environment variable MAX_VERSIONS_TO_KEEP
EnvUnset == [kind |-> "unset"]
EnvBad == [kind |-> "bad"]
EnvInt(n) == [kind |-> "int", value |-> n]

Max(a, b) == IF a >= b THEN a ELSE b
Min(a, b) == IF a <= b THEN a ELSE b
Range(s) == {s[i] : i \in 1 .. Len(s)}
Put(f, p, v) == [f EXCEPT ![p] = v]

\* ------------------------------------------------------------ Python lists
\* s[n:]
SliceFrom(s, n) ==
    LET start == IF n < 0 THEN Max(Len(s) + n, 0) ELSE Min(n, Len(s))
    IN  SubSeq(s, start + 1, Len(s))

\* s[:m]
SliceTo(s, m) ==
    LET end == IF m < 0 THEN Max(Len(s) + m, 0) ELSE Min(m, Len(s))
    IN  SubSeq(s, 1, end)

\* list.sort(key=..., reverse=...) is stable: x goes behind every element
\* that does not sort strictly after it.  key[x] is the sort key of x.
RECURSIVE InsertSorted(_, _, _, _)
InsertSorted(s, x, key, reverse) ==
    IF s = << >> THEN << x >>
    ELSE IF (IF reverse THEN key[x] > key[Head(s)] ELSE key[x] < key[Head(s)])
         THEN << x >> \o s
         ELSE << Head(s) >> \o InsertSorted(Tail(s), x, key, reverse)

RECURSIVE ListSort(_, _, _)
ListSort(s, key, reverse) ==
    IF s = << >> THEN << >>
    ELSE InsertSorted(ListSort(SubSeq(s, 1, Len(s) - 1), key, reverse),
                      s[Len(s)], key, reverse)

\* every order in which a service may list the items of `ids`
Listings(ids) ==
    {l \in [1 .. Cardinality(ids) -> ids] : Range(l) = ids}

\* ---------------------------------------------------- the external services
\* the secret material the HMAC API generates for key `id`
SecretOf(id) == 100 + id
\* the content of a version that an earlier rotation stored
PriorPayload == [access_id |-> 0, secret_key |-> 0]

\* Version numbers grow with the creation time; two versions may carry the
\* same timestamp.  Times are normalised: the first is 1, no gaps.
VersionSeqs(n) ==
    {s \in [1 .. n -> [state : VersionStates, create_time : 1 .. n,
                       payload : {PriorPayload}]] :
        /\ n > 0 => s[1].create_time = 1
        /\ \A i \in 1 .. n - 1 :
              s[i + 1].create_time - s[i].create_time \in {0, 1}}

\* Access ids are opaque: they say nothing about the creation time.
KeySeqs(n) ==
    {[i \in 1 .. n |-> [state |-> st[i], timeCreated |-> tm[i],
                        secret |-> SecretOf(i)]] :
        st \in [1 .. n -> KeyStates],
        tm \in {f \in [1 .. n -> 1 .. n] :
                  \E m \in 0 .. n : {f[i] : i \in 1 .. n} = 1 .. m}}

\* the states of the services with at most `budget` versions and keys
ExternalInit(budget) ==
    /\ \E nv \in 0 .. budget : \E nk \in 0 .. budget - nv :
          /\ versions \in VersionSeqs(nv)
          /\ keys \in KeySeqs(nk)
          /\ secretExists \in (IF nv > 0 THEN {TRUE} ELSE BOOLEAN)
          /\ clock = Max(nv, nk)

\* list_secret_versions / hmacKeys.list: what a listing returns for one item
VersionItem(v) ==
    [name |-> v, state |-> versions[v].state,
     create_time |-> versions[v].create_time]
KeyItem(k) ==
    [accessId |-> k, state |-> keys[k].state,
     timeCreated |-> keys[k].timeCreated]

\* a request record of the observation log
Req(op, id, listed, to, ok) ==
    [op |-> op, id |-> id, listed |-> listed, to |-> to, ok |-> ok]
Mutating == {"create_secret", "create_hmac_key", "add_secret_version",
             "disable_secret_version", "update_hmac_key"}

\* ------------------------------------------------------------ control flow
NoOutcome == [done |-> FALSE, ok |-> FALSE, n |-> 0, changed |-> FALSE]
AllOk(rs) == \A i \in 1 .. Len(rs) : rs[i].ok

\* the direct call of method m returns to its caller
EndCall(p, m, raised, rs) ==
    prev' = [prev EXCEPT ![m] =
                [before |-> @.last,
                 last |-> [done |-> TRUE, ok |-> ~raised /\ AllOk(rs),
                           n |-> Len(rs),
                           changed |-> @.start # << versions', keys' >>],
                 start |-> @.start]]

\* logger.info / logger.error: a line of the log, and the access id of the
\* HMAC key its text holds (0: it holds none)
LogLine(level, msg, key) == [level |-> level, msg |-> msg, key |-> key]
Logged(p, lines) == log' = Put(log, p, log[p] \o lines)

Goto(p, l) ==
    /\ pc' = Put(pc, p, l)
    /\ UNCHANGED << exitCode, failed, prev, log >>

\* the same, after the lines the step has logged
GotoLogged(p, l, lines) ==
    /\ pc' = Put(pc, p, l)
    /\ Logged(p, lines)
    /\ UNCHANGED << exitCode, failed, prev >>

\* sys.exit(0) after rotate_hmac_key returned; sys.exit(1) in main()'s
\* except block
ExitSuccess == 0
\* (mutant) the except block exits like a success
ExitFailureAsSuccess == 1 - 1
ExitFailure == 1

\* An exception leaves `step`.  Every except block of the class logs and
\* re-raises; main() catches it and calls sys.exit(1).
\* the logger.error lines of the except blocks an exception of `step`
\* passes through; rs are the requests issued so far, the failed one last
ErrorLines(p, step, rs) ==
    LET last == IF rs = << >> THEN Req("none", 0, "none", "none", TRUE)
                ELSE rs[Len(rs)]
        inner ==
            IF step = "__init__" THEN << LogLine("ERROR", "Failed to initialize", 0) >>
            ELSE IF step = "verify_bucket_access"
            THEN << LogLine("ERROR", "Failed to access bucket", 0) >>
            ELSE IF step = "ensure_secret_exists"
            THEN << LogLine("ERROR", "Failed to ensure secret exists", 0) >>
            ELSE IF step = "create_hmac_key"
            THEN << LogLine("ERROR", "Failed to create HMAC key", 0) >>
            ELSE IF step = "store_hmac_key_in_secret"
            THEN << LogLine("ERROR", "Failed to store HMAC key in secret", 0) >>
            ELSE IF step = "disable_old_secret_versions"
            THEN << LogLine("ERROR", "Failed to disable old secret versions", 0) >>
            ELSE (IF last.op = "update_hmac_key" /\ ~last.ok
                  THEN << LogLine("ERROR", "Failed to update HMAC key", last.id) >>
                  ELSE << LogLine("ERROR", "Failed to list HMAC keys", 0) >>)
                 \o << LogLine("ERROR", "Failed to cleanup old HMAC keys", 0) >>
        outer ==
            IF caller[p] # "main" THEN << >>
            ELSE IF step = "__init__" THEN << LogLine("ERROR", "Fatal error", 0) >>
            ELSE << LogLine("ERROR", "HMAC key rotation failed", 0),
                    LogLine("ERROR", "Fatal error", 0) >>
    IN  inner \o outer

Raise(p, step, m, rs) ==
    /\ failed' = Put(failed, p, step)
    /\ Logged(p, ErrorLines(p, step, rs))
    /\ IF caller[p] = "main"
       THEN /\ pc' = Put(pc, p, "exited")
            /\ exitCode' = Put(exitCode, p, ExitFailure)
            /\ UNCHANGED prev
       ELSE /\ pc' = Put(pc, p, "harness")
            /\ UNCHANGED exitCode
            /\ EndCall(p, m, TRUE, rs)

\* method m returns normally; `next` is what rotate_hmac_key does then
Return(p, m, next, rs) ==
    /\ UNCHANGED << exitCode, failed, log >>
    /\ IF caller[p] = "main"
       THEN pc' = Put(pc, p, next) /\ UNCHANGED prev
       ELSE pc' = Put(pc, p, "harness") /\ EndCall(p, m, FALSE, rs)

\* ------------------------------------------------- HMACKeyRotator.__init__
\* int(os.getenv('MAX_VERSIONS_TO_KEEP', '2')); EnvBad raises ValueError
IntEnv(v, default) == IF v.kind = "unset" THEN default ELSE v.value

\* app.py requires SERVICE_ACCOUNT_EMAIL; app-dev.py derives a default one
EmailResolved == variant = "app-dev" \/ SERVICE_ACCOUNT_EMAIL = "set"

\* the first request of rotate_hmac_key
FirstStep == IF variant = "app-dev" THEN "verify_bucket_access" ELSE "get_secret"

RotatorInit(p) ==
    /\ pc[p] = "__init__"
    /\ \E auth \in BOOLEAN :
          IF auth /\ MAX_VERSIONS_TO_KEEP.kind # "bad" /\ EmailResolved
          THEN /\ max_versions_to_keep' =
                     Put(max_versions_to_keep, p,
                         IntEnv(MAX_VERSIONS_TO_KEEP, DefaultMaxVersions))
               /\ Goto(p, FirstStep)
          ELSE /\ UNCHANGED max_versions_to_keep
               /\ Raise(p, "__init__", "none", << >>)
    /\ UNCHANGED << external, environ, caller, hmac_key_data, enabled_versions,
                    versions_to_disable, keys_to_inactivate, steps, reqs,
                    probe, calls >>

\* ------------------------------------------------------ rotate_hmac_key
\* (mutant) the result of the probe is ignored
VerifyPassesAlways(reachable) == TRUE
\* if not self.verify_bucket_access(): raise Exception(...)
VerifyPasses(reachable) == reachable

VerifyBucketAccess(p) ==
    /\ pc[p] = "verify_bucket_access"
    /\ steps' = Put(steps, p, Append(steps[p], "verify_bucket_access"))
    /\ \E reachable \in BOOLEAN :
          /\ probe' = Put(probe, p, IF reachable THEN "reachable"
                                                 ELSE "unreachable")
          /\ IF VerifyPasses(reachable)
             THEN Goto(p, "get_secret")
             ELSE Raise(p, "verify_bucket_access", "none", << >>)
    /\ UNCHANGED << external, environ, caller, max_versions_to_keep,
                    hmac_key_data, enabled_versions, versions_to_disable,
                    keys_to_inactivate, reqs, calls >>

\* ensure_secret_exists, the get_secret request: any exception (not found,
\* or any other failure while the secret exists) leads to create_secret
EnsureGetSecret(p) ==
    /\ pc[p] = "get_secret"
    /\ steps' = Put(steps, p, Append(steps[p], "ensure_secret_exists"))
    /\ \E r \in {"found", "not_found", "error"} :
          /\ r = "found" => secretExists
          /\ r = "not_found" => ~secretExists
          /\ Goto(p, IF r = "found" THEN "create_hmac_key" ELSE "create_secret")
    /\ UNCHANGED << external, environ, caller, max_versions_to_keep,
                    hmac_key_data, enabled_versions, versions_to_disable,
                    keys_to_inactivate, reqs, probe, calls >>

\* ensure_secret_exists, the create_secret request: it fails on a secret
\* that exists (AlreadyExists) and may fail for any other reason
EnsureCreateSecret(p) ==
    /\ pc[p] = "create_secret"
    /\ \E ok \in BOOLEAN :
          /\ ok => ~secretExists
          /\ secretExists' = (secretExists \/ ok)
          /\ reqs' = Put(reqs, p, Append(reqs[p],
                         Req("create_secret", 0, "none", "none", ok)))
          /\ IF ok THEN Goto(p, "create_hmac_key")
                   ELSE Raise(p, "ensure_secret_exists", "none", << >>)
    /\ UNCHANGED << versions, keys, clock, environ, caller,
                    max_versions_to_keep, hmac_key_data, enabled_versions,
                    versions_to_disable, keys_to_inactivate, steps, probe,
                    calls >>

\* create_hmac_key: the response's metadata and secret
KeyData(id) ==
    [access_id |-> id, secret |-> keys'[id].secret,
     state |-> keys'[id].state, created_time |-> keys'[id].timeCreated]

CreateHmacKey(p) ==
    /\ pc[p] = "create_hmac_key"
    /\ steps' = Put(steps, p, Append(steps[p], "create_hmac_key"))
    /\ \E ok \in BOOLEAN :
          LET id == Len(keys) + 1 IN
          IF ok
          THEN /\ keys' = Append(keys, [state |-> "ACTIVE",
                                        timeCreated |-> clock + 1,
                                        secret |-> SecretOf(id)])
               /\ clock' = clock + 1
               /\ hmac_key_data' = Put(hmac_key_data, p, KeyData(id))
               /\ reqs' = Put(reqs, p, Append(reqs[p],
                              Req("create_hmac_key", id, "none", "ACTIVE", TRUE)))
               /\ GotoLogged(p, "store_hmac_key_in_secret",
                     << LogLine("INFO", "Created HMAC key with Access ID", id) >>)
          ELSE /\ UNCHANGED << keys, clock, hmac_key_data >>
               /\ reqs' = Put(reqs, p, Append(reqs[p],
                              Req("create_hmac_key", 0, "none", "ACTIVE", FALSE)))
               /\ Raise(p, "create_hmac_key", "none", << >>)
    /\ UNCHANGED << secretExists, versions, environ, caller,
                    max_versions_to_keep, enabled_versions,
                    versions_to_disable, keys_to_inactivate, probe, calls >>

\* (mutant) the document holds the access id where the secret belongs
SecretPayloadWithoutSecret(d) ==
    IF variant = "app"
    THEN [access_id |-> d.access_id, secret_key |-> d.access_id,
          created_time |-> d.created_time]
    ELSE [hmac_credentials |-> [access_id |-> d.access_id,
                                secret_key |-> d.access_id],
          metadata |-> [created_time |-> d.created_time,
                        key_state |-> d.state]]

\* store_hmac_key_in_secret: the document that becomes the version's data
SecretPayload(d) ==
    IF variant = "app"
    THEN [access_id |-> d.access_id, secret_key |-> d.secret,
          created_time |-> d.created_time]
    ELSE [hmac_credentials |-> [access_id |-> d.access_id,
                                secret_key |-> d.secret],
          metadata |-> [created_time |-> d.created_time,
                        key_state |-> d.state]]

\* (mutant) the key cleanup runs before the version cleanup
AfterStoreCleanupFirst == "cleanup_old_hmac_keys"
\* what rotate_hmac_key calls after store_hmac_key_in_secret
AfterStore ==
    IF variant = "app-dev" THEN "list_secret_versions_1"
                           ELSE "disable_old_secret_versions"

StoreHmacKeyInSecret(p) ==
    /\ pc[p] = "store_hmac_key_in_secret"
    /\ steps' = Put(steps, p, Append(steps[p], "store_hmac_key_in_secret"))
    /\ \E ok \in BOOLEAN :
          /\ ok => secretExists
          /\ IF ok
             THEN /\ versions' = Append(versions,
                         [state |-> "ENABLED", create_time |-> clock + 1,
                          payload |-> SecretPayload(hmac_key_data[p])])
                  /\ clock' = clock + 1
                  /\ reqs' = Put(reqs, p, Append(reqs[p],
                        Req("add_secret_version", Len(versions) + 1, "none",
                            "ENABLED", TRUE)))
                  /\ Goto(p, AfterStore)
             ELSE /\ UNCHANGED << versions, clock >>
                  /\ reqs' = Put(reqs, p, Append(reqs[p],
                        Req("add_secret_version", 0, "none", "ENABLED", FALSE)))
                  /\ Raise(p, "store_hmac_key_in_secret", "none", << >>)
    /\ UNCHANGED << secretExists, keys, environ, caller, max_versions_to_keep,
                    hmac_key_data, enabled_versions, versions_to_disable,
                    keys_to_inactivate, probe, calls >>

\* list_secret_versions (app-dev.py's debugging aid): it reads, logs and
\* swallows its own exceptions
ListSecretVersions(p) ==
    /\ pc[p] \in {"list_secret_versions_1", "list_secret_versions_2"}
    /\ steps' = Put(steps, p, Append(steps[p], "list_secret_versions"))
    /\ Goto(p, IF pc[p] = "list_secret_versions_1"
               THEN "disable_old_secret_versions" ELSE "cleanup_old_hmac_keys")
    /\ UNCHANGED << external, environ, caller, max_versions_to_keep,
                    hmac_key_data, enabled_versions, versions_to_disable,
                    keys_to_inactivate, reqs, probe, calls >>

\* ------------------------------------------- disable_old_secret_versions
IsEnabled(v) == v.state = "ENABLED"

\* (mutant) the sort without reverse=True: oldest first
EnabledOldestFirst(listing) ==
    LET enabled == SelectSeq(listing, IsEnabled)
    IN  ListSort(enabled, [v \in Range(enabled) |-> v.create_time], FALSE)

\* enabled_versions: the ENABLED versions of the listing, newest first
EnabledNewestFirst(listing) ==
    LET enabled == SelectSeq(listing, IsEnabled)
    IN  ListSort(enabled, [v \in Range(enabled) |-> v.create_time], TRUE)

\* (mutant) the slice starts one element late
VersionsToDisableOffByOne(enabled, n) ==
    IF variant = "app-dev"
    THEN IF Len(enabled) > n THEN SliceFrom(enabled, n + 1) ELSE << >>
    ELSE SliceFrom(enabled, n + 1)

\* versions_to_disable: app.py slices; app-dev.py slices only a longer list
VersionsToDisable(enabled, n) ==
    IF variant = "app-dev"
    THEN IF Len(enabled) > n THEN SliceFrom(enabled, n) ELSE << >>
    ELSE SliceFrom(enabled, n)

\* what rotate_hmac_key calls after disable_old_secret_versions
AfterDisable ==
    IF variant = "app-dev" THEN "list_secret_versions_2"
                           ELSE "cleanup_old_hmac_keys"

\* the list_secret_versions request, the filter, the sort and the slice
DisableList(p) ==
    /\ pc[p] = "disable_old_secret_versions"
    /\ steps' = Put(steps, p, IF caller[p] = "main"
                              THEN Append(steps[p], "disable_old_secret_versions")
                              ELSE steps[p])
    /\ \E ok \in BOOLEAN :
          /\ ok => secretExists
          /\ IF ok
             THEN \E sorted \in {EnabledNewestFirst(
                                     [i \in 1 .. Len(l) |-> VersionItem(l[i])]) :
                                  l \in Listings(DOMAIN versions)} :
                    LET todo == VersionsToDisable(sorted, max_versions_to_keep[p])
                    IN  /\ enabled_versions' = Put(enabled_versions, p, sorted)
                        /\ versions_to_disable' = Put(versions_to_disable, p, todo)
                        /\ Goto(p, "disable_loop")
             ELSE /\ UNCHANGED << enabled_versions, versions_to_disable,
                                  versions, keys >>
                  /\ Raise(p, "disable_old_secret_versions", "disable", reqs[p])
    /\ UNCHANGED << external, environ, caller, max_versions_to_keep,
                    hmac_key_data, keys_to_inactivate, reqs, probe, calls >>

\* app-dev.py wraps each disable request in try/except and continues
SwallowsDisableFailure == variant = "app-dev"

\* one iteration of `for version in versions_to_disable`
DisableNext(p) ==
    /\ pc[p] = "disable_loop"
    /\ versions_to_disable[p] # << >>
    /\ LET v == Head(versions_to_disable[p]) IN
       \E ok \in BOOLEAN :
          LET rs == Append(reqs[p], Req("disable_secret_version", v.name,
                                        v.state, "DISABLED", ok))
          IN
          /\ ok => versions[v.name].state # "DESTROYED"
          /\ reqs' = Put(reqs, p, rs)
          /\ versions_to_disable' =
                Put(versions_to_disable, p, Tail(versions_to_disable[p]))
          /\ versions' = IF ok THEN [versions EXCEPT ![v.name].state = "DISABLED"]
                               ELSE versions
          /\ UNCHANGED keys
          /\ IF ok THEN Goto(p, "disable_loop")
             ELSE IF SwallowsDisableFailure
             THEN GotoLogged(p, "disable_loop",
                     << LogLine("ERROR", "Failed to disable version", 0) >>)
             ELSE Raise(p, "disable_old_secret_versions", "disable", rs)
    /\ UNCHANGED << secretExists, clock, environ, caller,
                    max_versions_to_keep, hmac_key_data, enabled_versions,
                    keys_to_inactivate, steps, probe, calls >>

\* the loop is over: disable_old_secret_versions returns
DisableDone(p) ==
    /\ pc[p] = "disable_loop"
    /\ versions_to_disable[p] = << >>
    /\ UNCHANGED << external >>
    /\ Return(p, "disable", AfterDisable, reqs[p])
    /\ UNCHANGED << environ, caller, max_versions_to_keep, hmac_key_data,
                    enabled_versions, versions_to_disable, keys_to_inactivate,
                    steps, reqs, probe, calls >>

\* ------------------------------------------------- cleanup_old_hmac_keys
\* (mutant) the sort with reverse=True: newest first
KeysNewestFirst(listing) ==
    ListSort(listing, [k \in Range(listing) |-> k.timeCreated], TRUE)

\* hmac_keys.sort(key=lambda x: x['timeCreated']): oldest first
KeysOldestFirst(listing) ==
    ListSort(listing, [k \in Range(listing) |-> k.timeCreated], FALSE)

\* (mutant) the slice keeps no key back
KeysToInactivateAll(hmac_keys) == hmac_keys
\* if len(hmac_keys) > 1: keys_to_inactivate = hmac_keys[:-1]
KeysToInactivate(hmac_keys) ==
    IF Len(hmac_keys) > 1 THEN SliceTo(hmac_keys, 0 - 1) ELSE << >>

\* (mutant) no key is taken for ACTIVE
NeedsUpdateNever(key) == FALSE
\* (mutant) the state of the key is not looked at
NeedsUpdateAlways(key) == TRUE
\* if key['state'] == 'ACTIVE': the state the listing gave
NeedsUpdate(key) == key.state = "ACTIVE"

\* the hmacKeys.list request, the sort and the slice
CleanupList(p) ==
    /\ pc[p] = "cleanup_old_hmac_keys"
    /\ steps' = Put(steps, p, IF caller[p] = "main"
                              THEN Append(steps[p], "cleanup_old_hmac_keys")
                              ELSE steps[p])
    /\ \E ok \in BOOLEAN :
          IF ok
          THEN \E hmac_keys \in {KeysOldestFirst(
                                    [i \in 1 .. Len(l) |-> KeyItem(l[i])]) :
                                 l \in Listings(DOMAIN keys)} :
                 /\ keys_to_inactivate' =
                       Put(keys_to_inactivate, p, KeysToInactivate(hmac_keys))
                 /\ Goto(p, "cleanup_loop")
          ELSE /\ UNCHANGED << keys_to_inactivate, versions, keys >>
               /\ Raise(p, "cleanup_old_hmac_keys", "cleanup", reqs[p])
    /\ UNCHANGED << external, environ, caller, max_versions_to_keep,
                    hmac_key_data, enabled_versions, versions_to_disable, reqs,
                    probe, calls >>

\* (mutant) the update request is not sent
UpdateHmacKeyStateDropped(access_id, state, ok) == keys' = keys
\* update_hmac_key_state(access_id, state): the hmacKeys.update request
UpdateHmacKeyState(access_id, state, ok) ==
    keys' = IF ok THEN [keys EXCEPT ![access_id].state = state] ELSE keys

\* one iteration of `for key in keys_to_inactivate`
CleanupNext(p) ==
    /\ pc[p] = "cleanup_loop"
    /\ keys_to_inactivate[p] # << >>
    /\ keys_to_inactivate' =
          Put(keys_to_inactivate, p, Tail(keys_to_inactivate[p]))
    /\ UNCHANGED versions
    /\ LET key == Head(keys_to_inactivate[p]) IN
       IF NeedsUpdate(key)
       THEN \E ok \in BOOLEAN :
              LET rs == Append(reqs[p], Req("update_hmac_key", key.accessId,
                                            key.state, "INACTIVE", ok))
              IN  /\ UpdateHmacKeyState(key.accessId, "INACTIVE", ok)
                  /\ reqs' = Put(reqs, p, rs)
                  /\ IF ok THEN Goto(p, "cleanup_loop")
                           ELSE Raise(p, "cleanup_old_hmac_keys", "cleanup", rs)
       ELSE /\ UNCHANGED << keys, reqs >>
            /\ Goto(p, "cleanup_loop")
    /\ UNCHANGED << secretExists, clock, environ, caller,
                    max_versions_to_keep, hmac_key_data, enabled_versions,
                    versions_to_disable, steps, probe, calls >>

\* the loop is over: cleanup_old_hmac_keys returns
CleanupDone(p) ==
    /\ pc[p] = "cleanup_loop"
    /\ keys_to_inactivate[p] = << >>
    /\ UNCHANGED << external >>
    /\ Return(p, "cleanup", "rotate_done", reqs[p])
    /\ UNCHANGED << environ, caller, max_versions_to_keep, hmac_key_data,
                    enabled_versions, versions_to_disable, keys_to_inactivate,
                    steps, reqs, probe, calls >>

\* ------------------------------------------------------------------ main
\* rotate_hmac_key returned: sys.exit(0)
MainExit(p) ==
    /\ pc[p] = "rotate_done"
    /\ pc' = Put(pc, p, "exited")
    /\ exitCode' = Put(exitCode, p, ExitSuccess)
    /\ UNCHANGED << external, environ, caller, max_versions_to_keep,
                    hmac_key_data, enabled_versions, versions_to_disable,
                    keys_to_inactivate, steps, failed, reqs, probe, log, prev,
                    calls >>

\* the scheduler starts the script again, in the same environment, after the
\* previous process has exited
NextInvocation(p) ==
    /\ pc[p] = "exited"
    /\ calls < MaxRuns - 1
    /\ calls' = calls + 1
    /\ pc' = Put(pc, p, "__init__")
    /\ exitCode' = Put(exitCode, p, Running)
    /\ max_versions_to_keep' = Put(max_versions_to_keep, p, DefaultMaxVersions)
    /\ hmac_key_data' = Put(hmac_key_data, p, None)
    /\ enabled_versions' = Put(enabled_versions, p, << >>)
    /\ versions_to_disable' = Put(versions_to_disable, p, << >>)
    /\ keys_to_inactivate' = Put(keys_to_inactivate, p, << >>)
    /\ steps' = Put(steps, p, << >>)
    /\ failed' = Put(failed, p, "none")
    /\ reqs' = Put(reqs, p, << >>)
    /\ probe' = Put(probe, p, "none")
    /\ log' = Put(log, p, << >>)
    /\ UNCHANGED << external, environ, caller, prev >>

\* ----------------------------------------------- direct calls of a method
Methods == {"disable", "cleanup"}

Call(p, m, entry) ==
    /\ pc[p] = "harness"
    /\ calls < MaxCalls
    /\ calls' = calls + 1
    /\ pc' = Put(pc, p, entry)
    /\ reqs' = Put(reqs, p, << >>)
    /\ failed' = Put(failed, p, "none")
    /\ log' = Put(log, p, << >>)
    /\ prev' = [prev EXCEPT ![m].start = << versions, keys >>]
    /\ UNCHANGED << external, environ, caller, max_versions_to_keep,
                    hmac_key_data, enabled_versions, versions_to_disable,
                    keys_to_inactivate, exitCode, steps, probe >>

CallDisable(p) == Call(p, "disable", "disable_old_secret_versions")
CallCleanup(p) == Call(p, "cleanup", "cleanup_old_hmac_keys")

\* ------------------------------------------------------- specifications
\* the locals and the observations before anything has run
LocalState(who) ==
    /\ caller = [p \in Procs |-> who]
    /\ hmac_key_data = [p \in Procs |-> None]
    /\ enabled_versions = [p \in Procs |-> << >>]
    /\ versions_to_disable = [p \in Procs |-> << >>]
    /\ keys_to_inactivate = [p \in Procs |-> << >>]
    /\ exitCode = [p \in Procs |-> Running]
    /\ steps = [p \in Procs |-> << >>]
    /\ failed = [p \in Procs |-> "none"]
    /\ reqs = [p \in Procs |-> << >>]
    /\ probe = [p \in Procs |-> "none"]
    /\ log = [p \in Procs |-> << >>]
    /\ prev = [m \in Methods |->
                 [before |-> NoOutcome, last |-> NoOutcome,
                  start |-> << versions, keys >>]]
    /\ calls = 0

LocalInit(start, who) ==
    /\ pc = [p \in Procs |-> IF p = "p1" THEN start ELSE "idle"]
    /\ LocalState(who)

\* one run of main() against services in any state with few items
Init ==
    /\ ExternalInit(MaxPrior)
    /\ variant \in Variants
    /\ SERVICE_ACCOUNT_EMAIL \in {"set", "unset"}
    /\ MAX_VERSIONS_TO_KEEP \in
          {EnvUnset, EnvBad} \cup {EnvInt(n) : n \in RetentionValues}
    \* the attribute does not exist yet; nothing reads it before __init__
    /\ max_versions_to_keep = [p \in Procs |-> DefaultMaxVersions]
    /\ LocalInit("__init__", "main")

Step(p) ==
    \/ RotatorInit(p)
    \/ VerifyBucketAccess(p)
    \/ EnsureGetSecret(p)
    \/ EnsureCreateSecret(p)
    \/ CreateHmacKey(p)
    \/ StoreHmacKeyInSecret(p)
    \/ ListSecretVersions(p)
    \/ DisableList(p)
    \/ DisableNext(p)
    \/ DisableDone(p)
    \/ CleanupList(p)
    \/ CleanupNext(p)
    \/ CleanupDone(p)
    \/ MainExit(p)

Next == Step("p1")

Spec == Init /\ [][Next]_vars

\* runs of main() one after the other: non-overlapping invocations
NextRuns ==
    \/ Step("p1")
    \/ NextInvocation("p1")

\* every later run adds a key and a version of its own, so the services
\* start with one item fewer than for a single run
InitRuns ==
    /\ ExternalInit(MaxPrior - 1)
    /\ variant \in Variants
    /\ SERVICE_ACCOUNT_EMAIL \in {"set", "unset"}
    /\ MAX_VERSIONS_TO_KEEP \in
          {EnvUnset, EnvBad} \cup {EnvInt(n) : n \in RetentionValues}
    /\ max_versions_to_keep = [p \in Procs |-> DefaultMaxVersions]
    /\ LocalInit("__init__", "main")

SpecRuns == InitRuns /\ [][NextRuns]_vars

\* two invocations of the script that overlap: nothing orders the steps of
\* one process against the steps of the other (the code takes no lock).
\* The two runs add two keys and two versions themselves, so the services
\* start with two items fewer than for a single run; the retention is
\* positive.
InitRace ==
    /\ ExternalInit(MaxPrior - 2)
    /\ variant \in Variants
    /\ SERVICE_ACCOUNT_EMAIL = "set"
    /\ MAX_VERSIONS_TO_KEEP \in {EnvInt(n) : n \in 1 .. MaxRetention}
    /\ max_versions_to_keep = [p \in Procs |-> DefaultMaxVersions]
    /\ pc = [p \in Procs |-> "__init__"]
    /\ LocalState("main")

NextRace ==
    \/ Step("p1")
    \/ Step("p2")

SpecRace == InitRace /\ [][NextRace]_vars

\* a constructed rotator whose cleanup methods are called directly
EnvDirect ==
    /\ variant \in Variants
    /\ SERVICE_ACCOUNT_EMAIL = "set"
    /\ MAX_VERSIONS_TO_KEEP \in {EnvInt(n) : n \in RetentionValues}
    /\ max_versions_to_keep =
          [p \in Procs |-> IntEnv(MAX_VERSIONS_TO_KEEP, DefaultMaxVersions)]

InitDirect ==
    /\ secretExists = TRUE
    /\ EnvDirect
    /\ LocalInit("harness", "direct")

\* disable_old_secret_versions, called (and called again) on any listing
InitDisable ==
    /\ \E nv \in 0 .. MaxListed : versions \in VersionSeqs(nv)
    /\ keys = << >>
    /\ clock = Len(versions)
    /\ InitDirect

NextDisable ==
    \/ CallDisable("p1")
    \/ DisableList("p1")
    \/ DisableNext("p1")
    \/ DisableDone("p1")

SpecDisable == InitDisable /\ [][NextDisable]_vars

\* cleanup_old_hmac_keys, called (and called again) on any listing
InitCleanup ==
    /\ \E nk \in 0 .. MaxListed : keys \in KeySeqs(nk)
    /\ versions = << >>
    /\ clock = Len(keys)
    /\ InitDirect

NextCleanup ==
    \/ CallCleanup("p1")
    \/ CleanupList("p1")
    \/ CleanupNext("p1")
    \/ CleanupDone("p1")

SpecCleanup == InitCleanup /\ [][NextCleanup]_vars

\* The two cleanup steps of rotate_hmac_key, started together in the state
\* the pipeline is in after store_hmac_key_in_secret: the key and the version
\* of this run are the newest, on top of what earlier runs left.  p1 runs
\* disable_old_secret_versions and p2 cleanup_old_hmac_keys; their requests
\* interleave in every way, the coded order (all of p1, then all of p2) and
\* the swapped order among them.
InitCommute ==
    /\ \E nv \in 0 .. MaxPrior : \E nk \in 0 .. MaxPrior - nv :
       \E vs \in VersionSeqs(nv) : \E ks \in KeySeqs(nk) :
          LET t == Max(nv, nk)
              id == nk + 1
          IN  /\ EnvDirect
              /\ keys = Append(ks, [state |-> "ACTIVE", timeCreated |-> t + 1,
                                    secret |-> SecretOf(id)])
              /\ versions = Append(vs,
                    [state |-> "ENABLED", create_time |-> t + 2,
                     payload |-> SecretPayload(
                        [access_id |-> id, secret |-> SecretOf(id),
                         state |-> "ACTIVE", created_time |-> t + 1])])
              /\ clock = t + 2
    /\ secretExists = TRUE
    /\ pc = [p \in Procs |-> IF p = "p1" THEN "disable_old_secret_versions"
                                         ELSE "cleanup_old_hmac_keys"]
    /\ LocalState("direct")

NextCommute ==
    \/ DisableList("p1")
    \/ DisableNext("p1")
    \/ DisableDone("p1")
    \/ CleanupList("p2")
    \/ CleanupNext("p2")
    \/ CleanupDone("p2")

SpecCommute == InitCommute /\ [][NextCommute]_vars

\* =================================================================== claims
\* the requests of process p that have the operation op
ReqsOf(p, op) == {i \in 1 .. Len(reqs[p]) : reqs[p][i].op = op}
\* a request of process p with an operation of ops failed
SomeFailed(p, ops) ==
    \E i \in 1 .. Len(reqs[p]) : reqs[p][i].op \in ops /\ ~reqs[p][i].ok
IsPrefix(s, u) == Len(s) <= Len(u) /\ s = SubSeq(u, 1, Len(s))
NotDebugListing(s) == s # "list_secret_versions"
\* the external steps rotate_hmac_key has started, without the debug listings
MainSteps(p) == SelectSeq(steps[p], NotDebugListing)
\* the order of the external steps of the pipeline
PipelineOrder ==
    (IF variant = "app-dev" THEN << "verify_bucket_access" >> ELSE << >>)
    \o << "ensure_secret_exists", "create_hmac_key", "store_hmac_key_in_secret",
          "disable_old_secret_versions", "cleanup_old_hmac_keys" >>

\* C1: when the pre-flight gate fails (the bucket probe of app-dev.py says
\* unreachable, or app.py runs without SERVICE_ACCOUNT_EMAIL), the run issues
\* no mutating request, goes nowhere but to its exit, and exits nonzero.
C1_PreflightFailureMutatesNothing ==
    \A p \in Procs :
        (\/ probe[p] = "unreachable"
         \/ variant = "app" /\ SERVICE_ACCOUNT_EMAIL = "unset")
        => /\ \A i \in 1 .. Len(reqs[p]) : reqs[p][i].op \notin Mutating
           /\ pc[p] \in {"idle", "__init__", "exited"}
           /\ pc[p] = "exited" => exitCode[p] # 0 /\ exitCode[p] # Running

C1_Witness ==
    /\ probe["p1"] = "unreachable"
    /\ pc["p1"] = "exited"
    /\ exitCode["p1"] = 1
    /\ reqs["p1"] = << >>

\* the step s of the run of p has done its work
Succeeded(p, s) ==
    /\ s = "verify_bucket_access" => probe[p] = "reachable"
    /\ s = "ensure_secret_exists"
       => secretExists /\ ~SomeFailed(p, {"create_secret"})
    /\ s = "create_hmac_key"
       => \E i \in ReqsOf(p, "create_hmac_key") : reqs[p][i].ok
    /\ s = "store_hmac_key_in_secret"
       => \E i \in ReqsOf(p, "add_secret_version") : reqs[p][i].ok
    /\ s = "disable_old_secret_versions"
       => versions_to_disable[p] = << >>

\* C2: the external steps of a run are started in the fixed pipeline order,
\* each only after the earlier ones succeeded: the step that failed is the
\* last step the run started, and the run is over.
C2_FixedOrderAbortOnFailure ==
    \A p \in Procs :
        /\ IsPrefix(MainSteps(p), PipelineOrder)
        /\ \A i \in 1 .. Len(MainSteps(p)) - 1 : Succeeded(p, MainSteps(p)[i])
        /\ (failed[p] \in Range(PipelineOrder) \/ SomeFailed(p, Mutating \
                                                   {"disable_secret_version"}))
           => /\ MainSteps(p) # << >>
              /\ MainSteps(p)[Len(MainSteps(p))] = failed[p]
              /\ pc[p] = "exited"

C2_Witness ==
    /\ variant = "app-dev"
    /\ failed["p1"] = "store_hmac_key_in_secret"
    /\ MainSteps("p1") = SubSeq(PipelineOrder, 1, 4)
    /\ pc["p1"] = "exited"

\* C3: a run in which the reachability check, the key creation or the
\* secret-version creation failed ends with exit code 1, never 0; a run in
\* which no step raised ends with exit code 0.
FatalFailed(p) ==
    \/ probe[p] = "unreachable"
    \/ SomeFailed(p, {"create_hmac_key", "add_secret_version"})

C3_ExitCodes ==
    \A p \in Procs :
        /\ FatalFailed(p) => pc[p] = "exited" /\ exitCode[p] = 1
        /\ pc[p] = "exited" => exitCode[p] \in {0, 1}
        /\ pc[p] = "exited" /\ failed[p] = "none"
           => exitCode[p] = 0 /\ MainSteps(p) = PipelineOrder
        /\ exitCode[p] = 0 => ~FatalFailed(p) /\ failed[p] = "none"

C3_Witness ==
    /\ pc["p1"] = "exited"
    /\ exitCode["p1"] = 1
    /\ SomeFailed("p1", {"add_secret_version"})

\* the credentials held by the document of a secret version
Credentials(payload) ==
    IF variant = "app"
    THEN [access_id |-> payload.access_id, secret_key |-> payload.secret_key]
    ELSE payload.hmac_credentials

\* C4: no run issues more than one key-create or more than one
\* add_secret_version request; a run that exits 0 has issued exactly one of
\* each, both succeeded, and the version it added holds the access id and
\* the secret of the key it created.
C4_OneKeyOneVersionPerRun ==
    \A p \in Procs :
        /\ Cardinality(ReqsOf(p, "create_hmac_key")) <= 1
        /\ Cardinality(ReqsOf(p, "add_secret_version")) <= 1
        /\ exitCode[p] = 0 =>
              \E i \in ReqsOf(p, "create_hmac_key") :
              \E j \in ReqsOf(p, "add_secret_version") :
                 LET k == reqs[p][i].id
                     v == reqs[p][j].id
                 IN  /\ reqs[p][i].ok /\ reqs[p][j].ok
                     /\ k \in DOMAIN keys /\ v \in DOMAIN versions
                     /\ Credentials(versions[v].payload) =
                           [access_id |-> k, secret_key |-> keys[k].secret]

C4_Witness ==
    /\ exitCode["p1"] = 0
    /\ Len(keys) > 1
    /\ Len(versions) > 1

\* the ENABLED versions / ACTIVE keys of a state of the services
EnabledIn(vs) == {v \in DOMAIN vs : vs[v].state = "ENABLED"}
ActiveIn(ks) == {k \in DOMAIN ks : ks[k].state = "ACTIVE"}
Names(s) == {s[i].name : i \in 1 .. Len(s)}
\* disable_old_secret_versions has listed and selected, and requested nothing
JustSelected(p) == pc[p] = "disable_loop" /\ reqs[p] = << >>
\* the direct call of method m has returned without raising
Returned(p, m) ==
    pc[p] = "harness" /\ prev[m].last.done /\ failed[p] = "none"

\* C5: with retention N >= 1 and k ENABLED versions in the listing,
\* disable_old_secret_versions selects exactly max(0, k - N) versions, all
\* ENABLED, none of them created after an ENABLED version it keeps; with
\* k <= N it selects none.
C5_SelectsAllButNewestN ==
    \A p \in Procs :
        JustSelected(p) /\ max_versions_to_keep[p] >= 1 =>
            LET n == max_versions_to_keep[p]
                E == EnabledIn(versions)
                S == Names(versions_to_disable[p])
            IN  /\ Len(versions_to_disable[p]) = Max(0, Cardinality(E) - n)
                /\ Cardinality(S) = Len(versions_to_disable[p])
                /\ S \subseteq E
                /\ \A s \in S : \A u \in E \ S :
                      versions[u].create_time >= versions[s].create_time
                /\ Cardinality(E) <= n => versions_to_disable[p] = << >>

C5_Witness ==
    /\ JustSelected("p1")
    /\ max_versions_to_keep["p1"] = 2
    /\ Len(versions) = 3
    /\ \A v \in 1 .. 3 : versions[v].state = "ENABLED"
                        /\ versions[v].create_time = v
    /\ Names(versions_to_disable["p1"]) = {1}

\* the ENABLED versions are the min(k, N) newest of the k versions that were
\* ENABLED when the call started
RetentionHolds(p) ==
    LET n == max_versions_to_keep[p]
        before == EnabledIn(prev["disable"].start[1])
        now == EnabledIn(versions)
    IN  /\ Cardinality(now) <= n
        /\ now \subseteq before
        /\ Cardinality(now) = Min(Cardinality(before), n)
        /\ \A u \in now : \A d \in before \ now :
              versions[u].create_time >= versions[d].create_time

C7_NewestKeyNeverDeactivated ==
    \A p \in Procs :
        /\ \A i \in ReqsOf(p, "update_hmac_key") :
              \E j \in DOMAIN keys \ {reqs[p][i].id} :
                 keys[j].timeCreated >= keys[reqs[p][i].id].timeCreated
        /\ Len(keys) <= 1 => ReqsOf(p, "update_hmac_key") = {}

C7_Witness ==
    /\ Returned("p1", "cleanup")
    /\ Len(keys) = 3
    /\ keys[2].timeCreated = 3 /\ keys[2].state = "ACTIVE"
    /\ keys[1].timeCreated = 2 /\ keys[3].timeCreated = 1
    /\ {reqs["p1"][i].id : i \in ReqsOf("p1", "update_hmac_key")} = {1, 3}

\* C8 (as claimed): cleanup_old_hmac_keys deactivates exactly the ACTIVE
\* keys other than the newest ACTIVE key: it behaves as the selection with
\* retention 1 over the ACTIVE keys, and deactivates nothing when exactly
\* one key is ACTIVE.
C8_CleanupKeepsNewestActive ==
    \A p \in Procs :
        Returned(p, "cleanup") =>
            LET before == prev["cleanup"].start[2]
                A == ActiveIn(before)
                D == {reqs[p][i].id : i \in ReqsOf(p, "update_hmac_key")}
            IN  /\ D \subseteq A
                /\ Cardinality(D) = Max(0, Cardinality(A) - 1)
                /\ \A d \in D : \A u \in A \ D :
                      before[u].timeCreated >= before[d].timeCreated
                /\ Cardinality(A) = 1 => D = {}

\* C9: a disable request is issued only for a version listed as ENABLED and
\* a key update only for a key listed as ACTIVE, the requested states are
\* DISABLED and INACTIVE, and the only changes of state of an existing item
\* are ENABLED -> DISABLED and ACTIVE -> INACTIVE.
OnlyKeptAreDemoted ==
    \A p \in Procs : \A i \in 1 .. Len(reqs[p]) :
        /\ reqs[p][i].op = "disable_secret_version"
           => reqs[p][i].listed = "ENABLED" /\ reqs[p][i].to = "DISABLED"
        /\ reqs[p][i].op = "update_hmac_key"
           => reqs[p][i].listed = "ACTIVE" /\ reqs[p][i].to = "INACTIVE"

OnlyDemotions ==
    /\ \A v \in DOMAIN versions :
          /\ v \in DOMAIN versions'
          /\ versions'[v].state # versions[v].state
             => versions[v].state = "ENABLED" /\ versions'[v].state = "DISABLED"
    /\ \A k \in DOMAIN keys :
          /\ k \in DOMAIN keys'
          /\ keys'[k].state # keys[k].state
             => keys[k].state = "ACTIVE" /\ keys'[k].state = "INACTIVE"

C9_NoResurrection == [](OnlyKeptAreDemoted) /\ [][OnlyDemotions]_vars

C9_Witness ==
    /\ exitCode["p1"] = 0
    /\ ReqsOf("p1", "disable_secret_version") # {}
    /\ ReqsOf("p1", "update_hmac_key") # {}
    /\ \E v \in DOMAIN versions : versions[v].state = "DESTROYED"
    /\ Len(keys) = 2

\* C10 (as claimed): a cleanup method applied again, after an application
\* in which it did not raise and every request succeeded, issues no request
\* and changes no state.
C10_DemotionIdempotent ==
    \A m \in Methods :
        prev[m].before.done /\ prev[m].before.ok /\ prev[m].last.done
        => prev[m].last.n = 0 /\ ~prev[m].last.changed

\* (side condition of C10) with a retention that is not negative the
\* version cleanup is idempotent
C10_IdempotentForNonNegativeRetention ==
    \A p \in Procs :
        max_versions_to_keep[p] >= 0 =>
            (prev["disable"].before.done /\ prev["disable"].before.ok
                                         /\ prev["disable"].last.done
             => prev["disable"].last.n = 0 /\ ~prev["disable"].last.changed)

\* the ids of the requests of process p that have the operation op
IdsOf(p, op) == {reqs[p][i].id : i \in ReqsOf(p, op)}

\* C11 (as claimed): in both variants a failed disable request is not fatal:
\* the exception does not leave disable_old_secret_versions, every selected
\* version receives its disable request, the run goes on to the key cleanup,
\* and it exits 0 unless a later step fails.
C11_DisableFailureNonFatal ==
    \A p \in Procs :
        SomeFailed(p, {"disable_secret_version"}) =>
            /\ failed[p] # "disable_old_secret_versions"
            /\ pc[p] = "exited" =>
                  /\ Names(VersionsToDisable(enabled_versions[p],
                                             max_versions_to_keep[p]))
                        \subseteq IdsOf(p, "disable_secret_version")
                  /\ "cleanup_old_hmac_keys" \in Range(steps[p])
                  /\ failed[p] = "none" => exitCode[p] = 0

\* (side condition of C11) app-dev.py, which wraps each disable request in
\* its own try/except, behaves as claimed
C11_NonFatalInAppDev == variant = "app-dev" => C11_DisableFailureNonFatal

\* C12 (as claimed): a failed deactivation request is not fatal: the
\* exception does not leave cleanup_old_hmac_keys, the loop visits every
\* other selected key, and the run exits 0.
C12_DeactivationFailureNonFatal ==
    \A p \in Procs :
        SomeFailed(p, {"update_hmac_key"}) =>
            /\ failed[p] # "cleanup_old_hmac_keys"
            /\ pc[p] = "exited" =>
                  /\ keys_to_inactivate[p] = << >>
                  /\ exitCode[p] = 0

\* C13 (as claimed): with MAX_VERSIONS_TO_KEEP <= 0 the run is rejected: no
\* disable request is issued, the run does not get past the version cleanup,
\* and it exits 1.
C13_NonPositiveRetentionRejected ==
    \A p \in Procs :
        MAX_VERSIONS_TO_KEEP.kind = "int" /\ MAX_VERSIONS_TO_KEEP.value <= 0 =>
            /\ ReqsOf(p, "disable_secret_version") = {}
            /\ "cleanup_old_hmac_keys" \notin Range(steps[p])
            /\ pc[p] = "exited" => exitCode[p] = 1

\* C14 (as claimed): when the key was created and the add_secret_version
\* request failed, the run exits nonzero and an error line of its log names
\* the created key (the report of the orphaned key).
C14_OrphanedKeyReported ==
    \A p \in Procs :
        \A i \in ReqsOf(p, "create_hmac_key") :
            reqs[p][i].ok /\ SomeFailed(p, {"add_secret_version"}) =>
                /\ pc[p] = "exited" /\ exitCode[p] = 1
                /\ \E j \in 1 .. Len(log[p]) :
                      /\ log[p][j].level = "ERROR"
                      /\ log[p][j].key = reqs[p][i].id

\* C15 (as claimed): ensure_secret_exists issues create_secret only while
\* the secret is absent, and a secret that exists never makes the step fail.
C15_EnsureSecretIdempotent ==
    \A p \in Procs :
        /\ pc[p] = "create_secret" => ~secretExists
        /\ failed[p] = "ensure_secret_exists" => ~secretExists

\* u comes before v in the retention order of the specification: newer
\* first, and the lower identifier first among equal creation times
OrderedBefore(u, v) ==
    \/ versions[u].create_time > versions[v].create_time
    \/ versions[u].create_time = versions[v].create_time /\ u < v

\* C16 (as claimed): with retention N >= 1 the versions selected for
\* disabling are the ENABLED versions that at least N ENABLED versions
\* precede in the order (creation time descending, identifier ascending),
\* whatever the order of the listing.
C16_SelectionIgnoresListingOrder ==
    \A p \in Procs :
        JustSelected(p) /\ max_versions_to_keep[p] >= 1 =>
            Names(versions_to_disable[p]) =
                {v \in EnabledIn(versions) :
                    Cardinality({u \in EnabledIn(versions) : OrderedBefore(u, v)})
                        >= max_versions_to_keep[p]}

\* the items a listing l of the versions vs / of the keys ks holds
VersionItemsOf(vs, l) ==
    [i \in 1 .. Len(l) |->
        [name |-> l[i], state |-> vs[l[i]].state,
         create_time |-> vs[l[i]].create_time]]
KeyItemsOf(ks, l) ==
    [i \in 1 .. Len(l) |->
        [accessId |-> l[i], state |-> ks[l[i]].state,
         timeCreated |-> ks[l[i]].timeCreated]]

\* what disable_old_secret_versions, run alone with retention n on the
\* versions vs listed as l, leaves when every request succeeds
DisableOutcome(vs, n, l) ==
    LET todo == VersionsToDisable(EnabledNewestFirst(VersionItemsOf(vs, l)), n)
    IN  [v \in DOMAIN vs |->
            IF v \in Names(todo) THEN [vs[v] EXCEPT !.state = "DISABLED"]
                                 ELSE vs[v]]

\* what cleanup_old_hmac_keys, run alone on the keys ks listed as l, leaves
\* when every request succeeds
CleanupOutcome(ks, l) ==
    LET todo == KeysToInactivate(KeysOldestFirst(KeyItemsOf(ks, l)))
        ids == {todo[i].accessId : i \in 1 .. Len(todo)}
    IN  [k \in DOMAIN ks |->
            IF k \in ids /\ ks[k].state = "ACTIVE"
            THEN [ks[k] EXCEPT !.state = "INACTIVE"]
            ELSE ks[k]]

\* both cleanup steps have returned and no request failed
BothCleanupsDone ==
    /\ pc["p1"] = "harness" /\ pc["p2"] = "harness"
    /\ failed["p1"] = "none" /\ failed["p2"] = "none"
    /\ AllOk(reqs["p1"]) /\ AllOk(reqs["p2"])

\* C17: the version cleanup issues requests on versions only and the key
\* cleanup on keys only, and however their requests interleave, when both
\* have returned and no request failed the versions are what the version
\* cleanup alone leaves and the keys what the key cleanup alone leaves: the
\* final states of the coded order.
C17_CleanupStepsCommute ==
    /\ \A i \in 1 .. Len(reqs["p1"]) : reqs["p1"][i].op = "disable_secret_version"
    /\ \A i \in 1 .. Len(reqs["p2"]) : reqs["p2"][i].op = "update_hmac_key"
    /\ pc["p1"] = "disable_old_secret_versions" => versions = prev["disable"].start[1]
    /\ pc["p2"] = "cleanup_old_hmac_keys" => keys = prev["cleanup"].start[2]
    /\ BothCleanupsDone =>
          LET vs == prev["disable"].start[1]
              ks == prev["cleanup"].start[2]
          IN  /\ \E l \in Listings(DOMAIN vs) :
                    versions = DisableOutcome(vs, max_versions_to_keep["p1"], l)
              /\ \E l \in Listings(DOMAIN ks) :
                    keys = CleanupOutcome(ks, l)

C17_Witness ==
    /\ BothCleanupsDone
    /\ max_versions_to_keep["p1"] = 1
    /\ Len(reqs["p1"]) = 1 /\ Len(reqs["p2"]) = 1
    /\ versions # prev["disable"].start[1]
    /\ keys # prev["cleanup"].start[2]

\* the access id the document of a secret version holds, in either layout
AccessIdOf(payload) ==
    IF "hmac_credentials" \in DOMAIN payload
    THEN payload.hmac_credentials.access_id
    ELSE payload.access_id

\* the most recently created ENABLED versions (one, unless times tie)
NewestEnabled ==
    {v \in EnabledIn(versions) :
        \A u \in EnabledIn(versions) :
            versions[u].create_time <= versions[v].create_time}

\* C18: whenever a run of a sequence of non-overlapping runs has exited 0
\* with retention N >= 1, there is one most recently created ENABLED
\* version, it holds the access id of the key this run created, that key is
\* ACTIVE and every other key is INACTIVE.
C18_StoredCredentialIsActive ==
    \A p \in Procs :
        pc[p] = "exited" /\ exitCode[p] = 0 /\ max_versions_to_keep[p] >= 1 =>
            \E i \in ReqsOf(p, "create_hmac_key") :
                LET k == reqs[p][i].id
                IN  /\ reqs[p][i].ok
                    /\ Cardinality(NewestEnabled) = 1
                    /\ \A v \in NewestEnabled :
                          AccessIdOf(versions[v].payload) = k
                    /\ k \in DOMAIN keys
                    /\ keys[k].state = "ACTIVE"
                    /\ \A j \in DOMAIN keys \ {k} : keys[j].state = "INACTIVE"

C18_Witness ==
    /\ pc["p1"] = "exited" /\ exitCode["p1"] = 0
    /\ max_versions_to_keep["p1"] = 1
    /\ calls = 1
    /\ Len(keys) = 3 /\ keys[3].state = "ACTIVE"
    /\ keys[1].state = "INACTIVE" /\ keys[2].state = "INACTIVE"
    /\ Cardinality(EnabledIn(versions)) = 1

\* the key process p has created (one request, by C4)
CreatedBy(p) == {reqs[p][i].id : i \in {j \in ReqsOf(p, "create_hmac_key") :
                                           reqs[p][j].ok}}
\* both invocations have exited 0
BothSucceeded == \A p \in Procs : pc[p] = "exited" /\ exitCode[p] = 0
\* the newest ENABLED version holds the access id of a key that is INACTIVE
StoredKeyInactive ==
    \E v \in NewestEnabled :
        /\ AccessIdOf(versions[v].payload) \in DOMAIN keys
        /\ keys[AccessIdOf(versions[v].payload)].state = "INACTIVE"

\* C19: two overlapping invocations can both exit 0 and leave the most
\* recently created ENABLED version holding a key that is INACTIVE (the
\* witness), and with retention N >= 1 this happens exactly when the run
\* whose key was created first stored its version last: the newest ENABLED
\* version is then one of the two runs' versions, the newest key is ACTIVE,
\* and the stored key is INACTIVE if and only if it is not the newest key.
C19_OverlappingRunsRace ==
    BothSucceeded /\ max_versions_to_keep["p1"] >= 1 =>
        /\ NewestEnabled = {Len(versions)}
        /\ AccessIdOf(versions[Len(versions)].payload)
              \in CreatedBy("p1") \cup CreatedBy("p2")
        /\ keys[Len(keys)].state = "ACTIVE"
        /\ StoredKeyInactive <=>
              AccessIdOf(versions[Len(versions)].payload) # Len(keys)

C19_Witness ==
    /\ BothSucceeded
    /\ max_versions_to_keep["p1"] >= 1
    /\ StoredKeyInactive
    /\ ~SomeFailed("p1", Mutating) /\ ~SomeFailed("p2", Mutating)

====
